---- MODULE Spec2Model ----
(***************************************************************************)
(* A model of main.py of YoutubeDownloader: the link normalizer, the       *)
(* filename sanitizer, the format-table parser, the post-download rename   *)
(* step and the interactive main loop.                                     *)
(*                                                                         *)
(* A Python str is a sequence of characters; a character is a one-letter   *)
(* TLA+ string, and a code point with no printable form is written by its  *)
(* name ("U+00A0").  None is the one-element sequence <<"None">>, which no *)
(* text of the model contains.                                             *)
(***************************************************************************)
EXTENDS Naturals, Sequences, FiniteSets

\* ------------------------------------------------------------------ bounds
\* Longest file stem given to sanitize_filename.
MaxNameLen == 4

\* Longest identifier part of a link given to normalize_youtube_link.
MaxIdLen == 3

\* Most lines of a listing given to parse_available.
MaxLines == 2

\* Most files one download leaves in the videos directory.
MaxNewFiles == 2

\* The videos directory takes no new file once it holds this many.
MaxFiles == 1

VARIABLES
    pc,                                 \* the position of the program
    link, normalized, renormalized,     \* the link read, its canonical form, and that of the canonical form
    name, stem,                         \* sanitize_filename: its argument and its result
    output_raw, resolutions,            \* parse_available: the listing and the resolution tokens
    video_map, audio_map,               \* the two catalogs
    files, before_files, after_files,   \* the videos directory, its files before the download, the new files left to visit
    p, candidate,                       \* the new file visited last and the target chosen for it
    info, live,                         \* the probe's answer and whether it reports a live video
    video_id, audio_id,                 \* the selection
    value,                              \* the response prompt_choice read last
    confirm, format_code, download_cli, \* the confirmation, the format expression, the download command run last
    info_txt, raw_txt,                  \* the content of info.txt and of raw.txt
    msg                                 \* the status line printed last

normVars == <<link, normalized, renormalized>>
sanVars == <<name, stem>>
parseVars == <<output_raw, resolutions, video_map, audio_map>>
renVars == <<files, before_files, after_files, p, candidate>>
mainVars ==
    <<info, live, video_id, audio_id, value, confirm, format_code, download_cli,
      info_txt, raw_txt, msg>>
vars == <<pc, normVars, sanVars, parseVars, renVars, mainVars>>

\* ------------------------------------------------------------ Python str
None == <<"None">>

\* A dict is the sequence of its (key, value) pairs in insertion order, no key
\* twice. An empty dict:
EmptyMap == <<>>

\* d.keys()
Keys(d) == {d[i][1] : i \in 1..Len(d)}

\* d.values(), as a sequence in the dict's order
Values(d) == [i \in 1..Len(d) |-> d[i][2]]

\* d[k] = v: a key the dict has keeps its place and takes the new value.
Put(d, k, v) ==
    IF k \in Keys(d)
    THEN [i \in 1..Len(d) |-> IF d[i][1] = k THEN <<k, v>> ELSE d[i]]
    ELSE Append(d, <<k, v>>)

\* The variables of the parts a specification leaves alone.
IdleNorm == link = None /\ normalized = None /\ renormalized = None
IdleSanitize == name = None /\ stem = None
IdleParse ==
    /\ output_raw = None /\ resolutions = None
    /\ video_map = EmptyMap /\ audio_map = EmptyMap
IdleRename ==
    /\ files = {} /\ before_files = {} /\ after_files = {}
    /\ p = None /\ candidate = None
\* The probe's answer when the probe fails, which is also a JSON object with
\* none of the fields main reads.
NoInfo == [title |-> None, is_live |-> FALSE, live_status |-> None]

\* No download command run yet; info.txt not written yet.
NoCommand == [format |-> None, url |-> None]
NoInfoText == [title |-> None, videos |-> <<>>, audios |-> <<>>]

IdleMain ==
    /\ info = NoInfo /\ live = FALSE
    /\ video_id = None /\ audio_id = None /\ value = None
    /\ confirm = None /\ format_code = None /\ download_cli = NoCommand
    /\ info_txt = NoInfoText /\ raw_txt = None /\ msg = ""

\* bool(x) of an optional str: None and "" are false.
Truthy(x) == x # None /\ x # <<>>

Range(s) == {s[i] : i \in 1..Len(s)}

\* s.startswith(prefix)
StartsWith(s, prefix) ==
    /\ Len(prefix) <= Len(s)
    /\ SubSeq(s, 1, Len(prefix)) = prefix

\* The 1-based positions at which sub occurs in s.
Occurrences(s, sub) ==
    {i \in 1..(Len(s) + 1) :
        /\ i + Len(sub) - 1 <= Len(s)
        /\ SubSeq(s, i, i + Len(sub) - 1) = sub}

\* sub in s
Contains(s, sub) == Occurrences(s, sub) # {}

Min(S) == CHOOSE x \in S : \A y \in S : x <= y
Max(S) == CHOOSE x \in S : \A y \in S : y <= x

\* s.lstrip(chars), chars a set of characters
LStrip(s, chars) ==
    LET keep == {i \in 1..Len(s) : s[i] \notin chars}
    IN  IF keep = {} THEN <<>> ELSE SubSeq(s, Min(keep), Len(s))

\* s.rstrip(chars)
RStrip(s, chars) ==
    LET keep == {i \in 1..Len(s) : s[i] \notin chars}
    IN  IF keep = {} THEN <<>> ELSE SubSeq(s, 1, Max(keep))

\* The characters of the model for which str.isspace() holds, which are the
\* ones the pattern \s matches and str.split() and str.strip() take as blank.
Whitespace ==
    {" ", "\t", "\n", "\r", "\f", "U+000B", "U+001F", "U+0085", "U+00A0", "U+2028"}

\* s.strip()
Strip(s) == RStrip(LStrip(s, Whitespace), Whitespace)

LowerCase ==
    [c \in {"A", "B", "C", "D", "E", "F", "G", "H", "I", "J", "K", "L", "M",
            "N", "O", "P", "Q", "R", "S", "T", "U", "V", "W", "X", "Y", "Z"} |->
        CASE c = "A" -> "a" [] c = "B" -> "b" [] c = "C" -> "c" [] c = "D" -> "d"
          [] c = "E" -> "e" [] c = "F" -> "f" [] c = "G" -> "g" [] c = "H" -> "h"
          [] c = "I" -> "i" [] c = "J" -> "j" [] c = "K" -> "k" [] c = "L" -> "l"
          [] c = "M" -> "m" [] c = "N" -> "n" [] c = "O" -> "o" [] c = "P" -> "p"
          [] c = "Q" -> "q" [] c = "R" -> "r" [] c = "S" -> "s" [] c = "T" -> "t"
          [] c = "U" -> "u" [] c = "V" -> "v" [] c = "W" -> "w" [] c = "X" -> "x"
          [] c = "Y" -> "y" [] c = "Z" -> "z"]

\* s.lower()
Lower(s) ==
    [i \in 1..Len(s) |-> IF s[i] \in DOMAIN LowerCase THEN LowerCase[s[i]] ELSE s[i]]

\* s.upper()
Upper(s) ==
    [i \in 1..Len(s) |->
        IF \E c \in DOMAIN LowerCase : LowerCase[c] = s[i]
        THEN CHOOSE c \in DOMAIN LowerCase : LowerCase[c] = s[i]
        ELSE s[i]]

\* s.split(sep) for a non-empty sep: the pieces between its occurrences,
\* taken left to right without overlap.
RECURSIVE SplitOn(_, _)
SplitOn(s, sep) ==
    IF ~Contains(s, sep) THEN <<s>>
    ELSE LET i == Min(Occurrences(s, sep))
         IN  <<SubSeq(s, 1, i - 1)>> \o SplitOn(SubSeq(s, i + Len(sep), Len(s)), sep)

\* s.split(): the maximal runs of characters that are not whitespace.
RECURSIVE SplitWs(_)
SplitWs(s) ==
    LET t == LStrip(s, Whitespace)
        blanks == {i \in 1..Len(t) : t[i] \in Whitespace}
    IN  IF t = <<>> THEN <<>>
        ELSE IF blanks = {} THEN <<t>>
        ELSE <<SubSeq(t, 1, Min(blanks) - 1)>> \o SplitWs(SubSeq(t, Min(blanks), Len(t)))

\* -------------------------------------------------- sanitize_filename
\* FILENAME_FORBIDDEN
FILENAME_FORBIDDEN == {"\\", "/", ":", "*", "?", "\"", "<", ">", "|"}

\* The characters 0x00-0x1F the model has.
ControlChars == {"\t", "\n", "\r", "\f", "U+0000", "U+000B", "U+001F"}

\* FILENAME_TRANSLATION: the characters str.translate deletes.
FILENAME_TRANSLATION == FILENAME_FORBIDDEN \cup ControlChars

FILENAME_RESERVED ==
    {<<"C", "O", "N">>, <<"P", "R", "N">>, <<"A", "U", "X">>, <<"N", "U", "L">>}
    \cup {<<"C", "O", "M", d>> : d \in {"1", "2", "3", "4", "5", "6", "7", "8", "9"}}
    \cup {<<"L", "P", "T", d>> : d \in {"1", "2", "3", "4", "5", "6", "7", "8", "9"}}

\* unicodedata.normalize("NFKC", c) of one character: the no-break space is a
\* space, the fullwidth solidus a solidus, the horizontal ellipsis three
\* periods; every other character of the model is its own normal form.
NFKCChar(c) ==
    CASE c = "U+00A0" -> <<" ">>
      [] c = "U+FF0F" -> <<"/">>
      [] c = "U+2026" -> <<".", ".", ".">>
      [] OTHER -> <<c>>

\* unicodedata.normalize("NFKC", s)
NFKC(s) ==
    LET F[i \in 0..Len(s)] == IF i = 0 THEN <<>> ELSE F[i - 1] \o NFKCChar(s[i])
    IN  F[Len(s)]

\* s.translate(FILENAME_TRANSLATION)
Translate(s) == SelectSeq(s, LAMBDA c : c \notin FILENAME_TRANSLATION)

\* WS_REGEX.sub(" ", s): every maximal run of whitespace becomes one space.
WsSub(s) ==
    LET F[i \in 0..Len(s)] ==
            IF i = 0 THEN <<>>
            ELSE IF s[i] \notin Whitespace THEN Append(F[i - 1], s[i])
            ELSE IF i > 1 /\ s[i - 1] \in Whitespace THEN F[i - 1]
            ELSE Append(F[i - 1], " ")
    IN  F[Len(s)]

Untitled == <<"u", "n", "t", "i", "t", "l", "e", "d">>

\* Steps 1 to 6 of sanitize_filename: the value of `sanitized` at line 129.
Sanitized(s) ==
    RStrip(LStrip(LStrip(WsSub(Translate(NFKC(s))), {" "}), {"."}), {" ", "."})

\* sanitize_filename without lines 131-132, the check of the reserved names.
sanitize_filename_unreserved(s) ==
    IF Sanitized(s) = <<>> THEN Untitled ELSE Sanitized(s)

sanitize_filename(s) ==
    LET sanitized == Sanitized(s)
        st == IF Upper(sanitized) \in FILENAME_RESERVED THEN <<>> ELSE sanitized
    IN  IF st = <<>> THEN Untitled ELSE st

\* The characters file stems are drawn from.
NameChars == {" ", ".", "/", "\t", "U+00A0", "C", "O", "N", "n"}

Names == UNION {[1..n -> NameChars] : n \in 0..MaxNameLen}

InitSanitize ==
    /\ pc = "sanitize"
    /\ name \in Names
    /\ stem = None
    /\ IdleNorm /\ IdleParse /\ IdleRename /\ IdleMain

\* new_stem = sanitize_filename(p.stem)
Sanitize ==
    /\ pc = "sanitize"
    /\ stem' = sanitize_filename(name)
    /\ pc' = "sanitized"
    /\ UNCHANGED <<name, normVars, parseVars, renVars, mainVars>>

NextSanitize == Sanitize

SpecSanitize == InitSanitize /\ [][NextSanitize]_vars

Padding == {" ", "."}

\* C3: the stem sanitize_filename returns neither begins nor ends with a space
\* or a period.
C3_NoPadding ==
    pc = "sanitized" =>
        /\ stem # <<>>
        /\ stem[1] \notin Padding
        /\ stem[Len(stem)] \notin Padding

\* C4: the stem sanitize_filename returns is not empty, holds no forbidden
\* character and no control character, and is not a reserved device name in
\* any case of letters; a name that steps 1 to 6 reduce to the empty string or
\* to a reserved name gives "untitled".
C4_SafeStem ==
    pc = "sanitized" =>
        /\ stem # <<>>
        /\ \A i \in 1..Len(stem) : stem[i] \notin FILENAME_FORBIDDEN \cup ControlChars
        /\ Upper(stem) \notin FILENAME_RESERVED
        /\ (Sanitized(name) = <<>> \/ Upper(Sanitized(name)) \in FILENAME_RESERVED)
                => stem = Untitled

\* A name with a forbidden character that reduces to a reserved device name
\* written in mixed case has been sanitized.
C4_Witness ==
    /\ pc = "sanitized"
    /\ "/" \in Range(name)
    /\ Sanitized(name) = <<"C", "O", "n">>
    /\ stem = Untitled

\* ------------------------------------------------ normalize_youtube_link
Letters == DOMAIN LowerCase \cup {LowerCase[c] : c \in DOMAIN LowerCase}
Digits == {"0", "1", "2", "3", "4", "5", "6", "7", "8", "9"}

\* urllib.parse.scheme_chars
SchemeChars == Letters \cup Digits \cup {"+", "-", "."}

\* s.split(sep, 1): s cut at the first occurrence of sep, <<s, None>> without one.
CutAt(s, sep) ==
    IF ~Contains(s, sep) THEN <<s, None>>
    ELSE LET i == Min(Occurrences(s, sep))
         IN  <<SubSeq(s, 1, i - 1), SubSeq(s, i + Len(sep), Len(s))>>

\* or-empty: the part of a cut that may be missing.
OrEmpty(x) == IF x = None THEN <<>> ELSE x

\* F(e) with e evaluated once: the value of a local variable of the code.
Let(e, F(_)) == CHOOSE r \in {F(x) : x \in {e}} : TRUE

\* urlsplit, the scheme: <<scheme, rest>>. The scheme is what precedes the
\* first colon when that starts with a letter and holds scheme characters only.
SplitScheme(url) ==
    LET colons == Occurrences(url, <<":">>)
        i == IF colons = {} THEN 0 ELSE Min(colons)
    IN  IF /\ i > 1
           /\ url[1] \in Letters
           /\ \A k \in 1..(i - 1) : url[k] \in SchemeChars
        THEN <<Lower(SubSeq(url, 1, i - 1)), SubSeq(url, i + 1, Len(url))>>
        ELSE <<<<>>, url>>

\* urlsplit, the network location: <<netloc, rest>>. After "//" it runs up to
\* the first of "/", "?" and "#".
SplitNetloc(url) ==
    LET delims == {k \in 3..Len(url) : url[k] \in {"/", "?", "#"}}
        delim == IF delims = {} THEN Len(url) + 1 ELSE Min(delims)
    IN  IF StartsWith(url, <<"/", "/">>)
        THEN <<SubSeq(url, 3, delim - 1), SubSeq(url, delim, Len(url))>>
        ELSE <<<<>>, url>>

\* urlparse, the parameters: <<path, params>>, cut at the first ";" of the
\* last segment of the path.
SplitParams(url) ==
    LET slashes == Occurrences(url, <<"/">>)
        lastSlash == IF slashes = {} THEN 1 ELSE Max(slashes)
        semis == {k \in lastSlash..Len(url) : url[k] = ";"}
    IN  IF semis = {} THEN <<url, <<>>>>
        ELSE <<SubSeq(url, 1, Min(semis) - 1), SubSeq(url, Min(semis) + 1, Len(url))>>

\* urllib.parse.urlparse(url): scheme, netloc, path, params, query, fragment.
urlparse(url) ==
    Let(SplitScheme(url), LAMBDA byScheme :
    Let(SplitNetloc(byScheme[2]), LAMBDA byNetloc :
    Let(CutAt(byNetloc[2], <<"#">>), LAMBDA byFragment :
    Let(CutAt(byFragment[1], <<"?">>), LAMBDA byQuery :
    Let(SplitParams(byQuery[1]), LAMBDA byParams :
        [scheme |-> byScheme[1],
         netloc |-> byNetloc[1],
         path |-> byParams[1],
         params |-> byParams[2],
         query |-> OrEmpty(byQuery[2]),
         fragment |-> OrEmpty(byFragment[2])])))))

\* The characters of the escapes %XX the model decodes (the pairs of hexadecimal
\* digits that name an ASCII character the model has).
HexPair ==
    [h \in {<<"2", "2">>, <<"2", "3">>, <<"2", "5">>, <<"2", "6">>, <<"2", "B">>,
            <<"2", "F">>, <<"3", "2">>, <<"3", "6">>, <<"3", "D">>, <<"3", "F">>,
            <<"6", "2">>, <<"6", "6">>} |->
        CASE h = <<"2", "2">> -> "\"" [] h = <<"2", "3">> -> "#"
          [] h = <<"2", "5">> -> "%" [] h = <<"2", "6">> -> "&"
          [] h = <<"2", "B">> -> "+" [] h = <<"2", "F">> -> "/"
          [] h = <<"3", "2">> -> "2" [] h = <<"3", "6">> -> "6"
          [] h = <<"3", "D">> -> "=" [] h = <<"3", "F">> -> "?"
          [] h = <<"6", "2">> -> "b" [] h = <<"6", "6">> -> "f"]

\* urllib.parse.unquote(s): every escape %XX becomes its character; a % that
\* starts no escape stays.
RECURSIVE unquote(_)
unquote(s) ==
    IF s = <<>> THEN <<>>
    ELSE IF s[1] = "%" /\ Len(s) >= 3 /\ <<s[2], s[3]>> \in DOMAIN HexPair
    THEN <<HexPair[<<s[2], s[3]>>]>> \o unquote(SubSeq(s, 4, Len(s)))
    ELSE <<s[1]>> \o unquote(Tail(s))

\* s.replace("+", " ")
PlusToSpace(s) == [k \in 1..Len(s) |-> IF s[k] = "+" THEN " " ELSE s[k]]

\* urllib.parse.parse_qsl(query): the decoded (name, value) pairs of the fields
\* name=value between the "&", a field with no "=" or with a blank value dropped.
parse_qsl(query) ==
    LET fields == SplitOn(query, <<"&">>)
        F[k \in 0..Len(fields)] ==
            IF k = 0 THEN <<>>
            ELSE LET nv == CutAt(fields[k], <<"=">>)
                 IN  IF fields[k] = <<>> \/ nv[2] = None \/ nv[2] = <<>>
                     THEN F[k - 1]
                     ELSE Append(F[k - 1],
                                 <<unquote(PlusToSpace(nv[1])), unquote(PlusToSpace(nv[2]))>>)
    IN  F[Len(fields)]

\* (parse_qs(query).get(key) or [None])[0]: the first value of key.
QsFirst(query, key) ==
    LET pairs == parse_qsl(query)
        hits == {k \in 1..Len(pairs) : pairs[k][1] = key}
    IN  IF hits = {} THEN None ELSE pairs[Min(hits)][2]

YoutubeCom == <<"y", "o", "u", "t", "u", "b", "e", ".", "c", "o", "m">>
YoutuBe == <<"y", "o", "u", "t", "u", ".", "b", "e">>
WatchRoute == <<"/", "w", "a", "t", "c", "h">>
ShortsRoute == <<"/", "s", "h", "o", "r", "t", "s", "/">>
CanonicalPrefix ==
    <<"h", "t", "t", "p", "s", ":", "/", "/", "w", "w", "w", ".", "y", "o", "u", "t", "u", "b", "e",
      ".", "c", "o", "m", "/", "w", "a", "t", "c", "h", "?", "v", "=">>

\* The video id normalize_youtube_link extracts from the parsed link u: `vid`
\* at line 92.
VideoIdFrom(u) ==
    LET host == Lower(u.netloc)
        path == u.path
    IN  IF Contains(host, YoutubeCom)
        THEN IF StartsWith(path, WatchRoute) THEN QsFirst(u.query, <<"v">>)
             ELSE IF StartsWith(path, ShortsRoute)
             THEN LET after == SplitOn(path, ShortsRoute)
                      first == SplitOn(after[Len(after)], <<"/">>)[1]
                  IN  IF first = <<>> THEN None ELSE first
             ELSE None
        ELSE IF host = YoutuBe
        THEN LET parts == SelectSeq(SplitOn(path, <<"/">>), LAMBDA x : x # <<>>)
             IN  IF parts = <<>> THEN None ELSE parts[1]
        ELSE None

CanonicalOf(vid) == IF ~Truthy(vid) THEN None ELSE CanonicalPrefix \o vid

normalize_youtube_link(url) ==
    Let(urlparse(url), LAMBDA u : Let(VideoIdFrom(u), LAMBDA vid : CanonicalOf(vid)))

\* The links of the model: a prefix that names a host and a route, then an
\* identifier part.
LinkPrefixes ==
    {CanonicalPrefix,
     <<"h", "t", "t", "p", "s", ":", "/", "/", "y", "o", "u", "t", "u", "b", "e", ".", "c", "o", "m",
       "/", "s", "h", "o", "r", "t", "s", "/">>,
     <<"h", "t", "t", "p", "s", ":", "/", "/", "y", "o", "u", "t", "u", ".", "b", "e", "/">>,
     <<"h", "t", "t", "p", "s", ":", "/", "/", "e", "x", "a", "m", "p", "l", "e", ".", "c", "o", "m",
       "/", "w", "a", "t", "c", "h", "?", "v", "=">>,
     <<"w", "w", "w", ".", "y", "o", "u", "t", "u", "b", "e", ".", "c", "o", "m", "/", "w", "a", "t",
       "c", "h", "?", "v", "=">>,
     <<"H", "T", "T", "P", "S", ":", "/", "/", "M", ".", "Y", "o", "u", "T", "u", "b", "e", ".", "c",
       "o", "m", "/", "w", "a", "t", "c", "h", "?", "t", "=", "1", "&", "v", "=">>}

IdChars == {"x", "&", "#", "%", "2", "6", "/", "+"}

IdParts == UNION {[1..n -> IdChars] : n \in 0..MaxIdLen}

InitNormalize ==
    /\ pc = "normalize"
    /\ \E prefix \in LinkPrefixes, id \in IdParts : link = prefix \o id
    /\ normalized = None
    /\ renormalized = None
    /\ IdleSanitize /\ IdleParse /\ IdleRename /\ IdleMain

\* normalized = normalize_youtube_link(link)
Normalize ==
    /\ pc = "normalize"
    /\ normalized' = normalize_youtube_link(link)
    /\ pc' = "normalized"
    /\ UNCHANGED <<link, renormalized, sanVars, parseVars, renVars, mainVars>>

\* The canonical URL given to normalize_youtube_link again.
Renormalize ==
    /\ pc = "normalized"
    /\ normalized # None
    /\ renormalized' = normalize_youtube_link(normalized)
    /\ pc' = "renormalized"
    /\ UNCHANGED <<link, normalized, sanVars, parseVars, renVars, mainVars>>

NextNormalize == Normalize \/ Renormalize

SpecNormalize == InitNormalize /\ [][NextNormalize]_vars

\* C5: normalize_youtube_link is idempotent: the canonical URL it returns,
\* normalized again, is that same URL, neither absent nor one of another id.
C5_Idempotent == pc = "renormalized" => renormalized = normalized

\* ------------------------------------------------------ parse_available
\* RESOLUTIONS
RESOLUTIONS == <<"2", "1", "6", "0", " ", "1", "4", "4", "0", " ", "1", "0", "8", "0">>

\* The characters of the model at which str.splitlines() ends a line.
LineBreaks == {"\n", "\r", "\f", "U+000B", "U+0085", "U+2028"}

\* s.splitlines(): the lines of s without their line breaks; "\r\n" is one
\* break, and a break at the end opens no further line.
RECURSIVE splitlines(_)
splitlines(s) ==
    LET breaks == {i \in 1..Len(s) : s[i] \in LineBreaks}
        i == Min(breaks)
        n == IF s[i] = "\r" /\ i < Len(s) /\ s[i + 1] = "\n" THEN 2 ELSE 1
    IN  IF s = <<>> THEN <<>>
        ELSE IF breaks = {} THEN <<s>>
        ELSE <<SubSeq(s, 1, i - 1)>> \o splitlines(SubSeq(s, i + n, Len(s)))

\* pattern.match(line) for the pattern ^\s*\d+
PatternMatchStrict(line) == line # <<>> /\ line[1] \in Digits

PatternMatch(line) ==
    LET rest == LStrip(line, Whitespace)
    IN  rest # <<>> /\ rest[1] \in Digits

VideoWord == <<"v", "i", "d", "e", "o">>
AudioOnlyWords == <<"a", "u", "d", "i", "o", " ", "o", "n", "l", "y">>

\* The condition of the comprehension of video_lines.
IsVideoLine(line, res_list) ==
    /\ PatternMatch(line)
    /\ \E k \in 1..Len(res_list) : Contains(line, res_list[k])
    /\ Contains(Lower(line), VideoWord)

\* The condition of the comprehension of audio_lines.
IsAudioLine(line) ==
    /\ PatternMatch(line)
    /\ Contains(Lower(line), AudioOnlyWords)

\* {line.split()[0]: line for line in lines}
DictOfLines(lines) ==
    LET F[k \in 0..Len(lines)] ==
            IF k = 0 THEN EmptyMap
            ELSE Put(F[k - 1], SplitWs(lines[k])[1], lines[k])
    IN  F[Len(lines)]

\* parse_available(raw, resolutions): <<video_map, audio_map>>
parse_available(raw, res) ==
    LET lines == splitlines(raw)
        res_list == SplitWs(res)
        video_lines == SelectSeq(lines, LAMBDA line : IsVideoLine(line, res_list))
        audio_lines == SelectSeq(lines, LAMBDA line : IsAudioLine(line))
    IN  <<DictOfLines(video_lines), DictOfLines(audio_lines)>>

\* The rows of the listings of the model: an identifier column, the kind of
\* the stream, a resolution.
RowLeads == {<<"1", "4", "0">>, <<" ", "1", "0", "8", "0">>, <<"x", "9">>}
RowKinds ==
    {<<" ", "v", "i", "d", "e", "o">>,
     <<" ", "a", "u", "d", "i", "o", " ", "o", "n", "l", "y">>,
     <<" ", "A", "u", "d", "i", "o", " ", "O", "n", "l", "y", " ", "V", "I", "D", "E", "O">>}
RowResolutions == {<<" ", "1", "4", "4", "0", "p">>, <<" ", "7", "2", "0", "p">>}

Rows == {lead \o kind \o res : lead \in RowLeads, kind \in RowKinds, res \in RowResolutions}

\* "\n".join(rows)
JoinLines(rows) ==
    LET F[k \in 0..Len(rows)] ==
            IF k = 0 THEN <<>>
            ELSE IF k = 1 THEN rows[1]
            ELSE F[k - 1] \o <<"\n">> \o rows[k]
    IN  F[Len(rows)]

Listings == {JoinLines(rows) : rows \in UNION {[1..n -> Rows] : n \in 0..MaxLines}}

ResolutionLists == {RESOLUTIONS, <<" ", "7", "2", "0", "p", " ">>}

InitParse ==
    /\ pc = "parse"
    /\ output_raw \in Listings
    /\ resolutions \in ResolutionLists
    /\ video_map = EmptyMap
    /\ audio_map = EmptyMap
    /\ IdleNorm /\ IdleSanitize /\ IdleRename /\ IdleMain

\* video_map, audio_map = parse_available(output_raw, resolutions)
Parse ==
    /\ pc = "parse"
    /\ video_map' = parse_available(output_raw, resolutions)[1]
    /\ audio_map' = parse_available(output_raw, resolutions)[2]
    /\ pc' = "parsed"
    /\ UNCHANGED <<output_raw, resolutions, normVars, sanVars, renVars, mainVars>>

NextParse == Parse

SpecParse == InitParse /\ [][NextParse]_vars

\* The words of the claim about a line of the listing.
LeadingDigit(line) ==
    \E i \in 1..Len(line) :
        /\ line[i] \in Digits
        /\ \A j \in 1..(i - 1) : line[j] \in Whitespace

ResolutionTokens == Range(SplitWs(resolutions))

VideoRow(line) ==
    /\ LeadingDigit(line)
    /\ Contains(Lower(line), VideoWord)
    /\ \E token \in ResolutionTokens : Contains(line, token)

AudioRow(line) ==
    /\ LeadingDigit(line)
    /\ Contains(Lower(line), AudioOnlyWords)

\* The identifier of a row: its characters from the first one that is not
\* whitespace up to the next whitespace.
RowId(line) == SplitWs(line)[1]

InputLines == splitlines(output_raw)

InMap(line, map) == \E i \in 1..Len(map) : map[i][2] = line

\* C6, as stated: a line of the listing is in the video map iff it starts with
\* a digit after optional whitespace, contains "video" in any case and
\* contains a resolution token; it is in the audio map iff it starts with a
\* digit and contains "audio only" in any case; a line with no leading digit is
\* in neither map, and an empty listing gives two empty maps.
C6_LineInMapIffRow ==
    pc = "parsed" =>
        /\ \A line \in Range(InputLines) :
            /\ InMap(line, video_map) <=> VideoRow(line)
            /\ InMap(line, audio_map) <=> AudioRow(line)
            /\ ~LeadingDigit(line) => ~InMap(line, video_map) /\ ~InMap(line, audio_map)
        /\ output_raw = <<>> => video_map = EmptyMap /\ audio_map = EmptyMap

\* The line at place i is the last line of its kind with its identifier.
LastOfId(i, IsRow(_)) ==
    \A j \in (i + 1)..Len(InputLines) :
        IsRow(InputLines[j]) => RowId(InputLines[j]) # RowId(InputLines[i])

\* C6, amended: every row of a kind has its identifier among the keys of the
\* map of that kind, and a line is a value of the map iff it is such a row and
\* no later row of that kind has the same identifier.
C6_LastRowOfIdInMap ==
    pc = "parsed" =>
        /\ \A i \in 1..Len(InputLines) :
            LET line == InputLines[i]
            IN  /\ VideoRow(line) => RowId(line) \in Keys(video_map)
                /\ AudioRow(line) => RowId(line) \in Keys(audio_map)
                /\ InMap(line, video_map)
                     <=> \E k \in 1..Len(InputLines) :
                            InputLines[k] = line /\ VideoRow(line) /\ LastOfId(k, VideoRow)
                /\ InMap(line, audio_map)
                     <=> \E k \in 1..Len(InputLines) :
                            InputLines[k] = line /\ AudioRow(line) /\ LastOfId(k, AudioRow)
                /\ ~LeadingDigit(line) => ~InMap(line, video_map) /\ ~InMap(line, audio_map)
        /\ \A i \in 1..Len(video_map) :
            video_map[i][2] \in Range(InputLines) /\ video_map[i][1] = RowId(video_map[i][2])
        /\ \A i \in 1..Len(audio_map) :
            audio_map[i][2] \in Range(InputLines) /\ audio_map[i][1] = RowId(audio_map[i][2])
        /\ output_raw = <<>> => video_map = EmptyMap /\ audio_map = EmptyMap

\* Two rows of one identifier that both qualify as video and as audio rows
\* have been parsed: the later one is the value of both maps.
C6_Witness ==
    /\ pc = "parsed"
    /\ Len(InputLines) = 2
    /\ InputLines[1] # InputLines[2]
    /\ VideoRow(InputLines[1]) /\ VideoRow(InputLines[2])
    /\ AudioRow(InputLines[1]) /\ AudioRow(InputLines[2])
    /\ RowId(InputLines[1]) = RowId(InputLines[2])
    /\ video_map = <<<<RowId(InputLines[2]), InputLines[2]>>>>
    /\ audio_map = video_map

\* ------------------------------------------------ the rename of new files
\* A file of the videos directory is its name; the directory is the set of
\* the names in it.

\* The place of the period that starts the suffix of a name, 0 when the name
\* has no suffix (pathlib: the last period, neither first nor last).
SuffixAt(nm) ==
    LET dots == Occurrences(nm, <<".">>)
    IN  IF dots # {} /\ 1 < Max(dots) /\ Max(dots) < Len(nm) THEN Max(dots) ELSE 0

\* p.suffix
Suffix(nm) == IF SuffixAt(nm) = 0 THEN <<>> ELSE SubSeq(nm, SuffixAt(nm), Len(nm))

\* p.stem
StemOf(nm) == IF SuffixAt(nm) = 0 THEN nm ELSE SubSeq(nm, 1, SuffixAt(nm) - 1)

DigitOf == [d \in 0..9 |-> CASE d = 0 -> "0" [] d = 1 -> "1" [] d = 2 -> "2" [] d = 3 -> "3"
                              [] d = 4 -> "4" [] d = 5 -> "5" [] d = 6 -> "6" [] d = 7 -> "7"
                              [] d = 8 -> "8" [] d = 9 -> "9"]

\* str(i) of a natural number
RECURSIVE Str(_)
Str(i) == IF i < 10 THEN <<DigitOf[i]>> ELSE Str(i \div 10) \o <<DigitOf[i % 10]>>

\* f"{new_stem} ({i})" + suffix
Numbered(new_stem, i, suffix) == new_stem \o <<" ", "(">> \o Str(i) \o <<")">> \o suffix

\* The loop of lines 332-334 from counter i on: the first numbered name that
\* is not in the directory.
RECURSIVE FirstFree(_, _, _, _)
FirstFree(new_stem, i, suffix, dir) ==
    IF Numbered(new_stem, i, suffix) \in dir
    THEN FirstFree(new_stem, i + 1, suffix, dir)
    ELSE Numbered(new_stem, i, suffix)

\* The target with the loop run at most once: the name numbered 1 whenever the
\* plain target is taken.
Candidate_once(nm, dir) ==
    LET new_stem == sanitize_filename(StemOf(nm))
        target == new_stem \o Suffix(nm)
    IN  IF target \in dir THEN Numbered(new_stem, 1, Suffix(nm)) ELSE target

\* The name `candidate` holds at line 336 for the new file nm, the directory
\* being dir.
Candidate(nm, dir) ==
    LET new_stem == sanitize_filename(StemOf(nm))
        target == new_stem \o Suffix(nm)
    IN  IF target \in dir THEN FirstFree(new_stem, 1, Suffix(nm), dir) ELSE target

\* new_stem != p.stem
NeedsRename(nm) == sanitize_filename(StemOf(nm)) # StemOf(nm)

\* The directory after p.rename(candidate).
Renamed(dir, nm, target) == (dir \ {nm}) \cup {target}

\* The files the directory holds before a download, and those a download
\* leaves in it.
OldNames ==
    {<<"a", ".", "m">>, <<"a", " ", "(", "1", ")", ".", "m">>,
     <<"a", " ", "(", "2", ")", ".", "m">>, <<"a">>}
NewNames ==
    {<<"a", "?", ".", "m">>, <<"a", "*", ".", "m">>, <<"a", "?", " ", "(", "1", ")", ".", "m">>,
     <<"b", ".", "m">>, <<"a", "|">>, <<".", "a", ":", ".", "m">>}

InitRename ==
    /\ pc = "rename"
    /\ before_files \in SUBSET OldNames
    /\ after_files \in {new \in SUBSET NewNames : Cardinality(new) <= MaxNewFiles}
    /\ files = before_files \cup after_files
    /\ p = None
    /\ candidate = None
    /\ IdleNorm /\ IdleSanitize /\ IdleParse /\ IdleMain

\* One pass of the loop of line 325 over a file whose stem is safe already.
KeepFile ==
    /\ pc = "rename"
    /\ \E nm \in after_files :
        /\ ~NeedsRename(nm)
        /\ p' = nm
        /\ after_files' = after_files \ {nm}
    /\ UNCHANGED <<pc, files, before_files, candidate, normVars, sanVars, parseVars, mainVars>>

\* One pass over a file whose stem sanitize_filename changes, the rename done.
RenameFile ==
    /\ pc = "rename"
    /\ \E nm \in after_files :
        /\ NeedsRename(nm)
        /\ p' = nm
        /\ candidate' = Candidate(nm, files)
        /\ files' = Renamed(files, nm, Candidate(nm, files))
        /\ after_files' = after_files \ {nm}
    /\ UNCHANGED <<pc, before_files, normVars, sanVars, parseVars, mainVars>>

\* One pass over such a file, p.rename raising: the file keeps its name.
RenameFailed ==
    /\ pc = "rename"
    /\ \E nm \in after_files :
        /\ NeedsRename(nm)
        /\ p' = nm
        /\ candidate' = Candidate(nm, files)
        /\ after_files' = after_files \ {nm}
    /\ UNCHANGED <<pc, files, before_files, normVars, sanVars, parseVars, mainVars>>

\* The loop is over.
RenameDone ==
    /\ pc = "rename"
    /\ after_files = {}
    /\ pc' = "renamed"
    /\ UNCHANGED <<normVars, sanVars, parseVars, renVars, mainVars>>

NextRename == KeepFile \/ RenameFile \/ RenameFailed \/ RenameDone

SpecRename == InitRename /\ [][NextRename]_vars

\* A step of the rename loop over a file whose sanitized stem differs from
\* its stem.
VisitsUnsafeFile ==
    /\ pc = "rename"
    /\ p' \in after_files
    /\ after_files' = after_files \ {p'}
    /\ NeedsRename(p')

\* C7: for a new file whose sanitized stem differs from its stem, the target
\* is stem+ext when no file of that name exists, and otherwise "stem (n).ext"
\* for the smallest positive n that names no file of the directory; the target
\* is no file of the directory as it is when the target is chosen, files
\* renamed earlier in the step included.
C7_FirstFreeTarget ==
    [][VisitsUnsafeFile =>
        LET new_stem == sanitize_filename(StemOf(p'))
            target == new_stem \o Suffix(p')
        IN  /\ candidate' \notin files
            /\ target \notin files => candidate' = target
            /\ target \in files =>
                \E n \in 1..(Cardinality(files) + 1) :
                    /\ candidate' = Numbered(new_stem, n, Suffix(p'))
                    /\ \A m \in 1..(n - 1) : Numbered(new_stem, m, Suffix(p')) \in files
      ]_vars

\* A new file took the name numbered 2 because the plain name was taken from
\* before the download and the name numbered 1 by a file renamed earlier in
\* the same step.
C7_Witness ==
    /\ candidate = <<"a", " ", "(", "2", ")", ".", "m">>
    /\ candidate \in files
    /\ <<"a", ".", "m">> \in before_files
    /\ <<"a", " ", "(", "1", ")", ".", "m">> \in files \ before_files

\* ------------------------------------------------------------------ main
\* The status lines main prints.
InvalidLinkMsg == "Link invalido."
NoDataMsg == "Nenhuma informacao encontrada. Verifique o link e tente novamente."
OpenInfoMsg == "Abra o arquivo info.txt e escolha os IDs desejados."
InvalidIdMsg == "ID invalido. Insira um ID listado em info.txt."
SelectOneMsg == "Selecione pelo menos um ID de Video ou de Audio."
CancelMsg == "Download cancelado pelo usuario."
DoneMsg == "Download e Merge concluidos com sucesso."
ErrorMsg == "Ocorreu um erro."

\* The videos of the model, each named by the one-letter id its link carries,
\* and what yt-dlp answers for each.
VideoOf(url) == url[Len(url)]

\* probe_video_info(link): the JSON of yt-dlp -J, None when the probe fails.
probe_video_info(url) ==
    CASE VideoOf(url) = "v" ->
            [title |-> <<"a", "?">>, is_live |-> FALSE,
             live_status |-> <<"n", "o", "t", "_", "l", "i", "v", "e">>]
      [] VideoOf(url) = "l" ->
            [title |-> <<"b">>, is_live |-> FALSE,
             live_status |-> <<"I", "S", "_", "U", "P", "C", "O", "M", "I", "N", "G">>]
      [] OTHER -> NoInfo

LiveStatuses ==
    {<<"i", "s", "_", "l", "i", "v", "e">>, <<"l", "i", "v", "e">>,
     <<"i", "s", "_", "u", "p", "c", "o", "m", "i", "n", "g">>,
     <<"u", "p", "c", "o", "m", "i", "n", "g">>}

\* `live` as lines 219-222 and 228-231 compute it.
IsLive(inf) ==
    \/ inf.is_live
    \/ Lower(OrEmpty(inf.live_status)) \in LiveStatuses

\* (info or {}).get("title")
TitleOf(inf) == inf.title

\* The two streams of yt-dlp -F for a link.
YtDlpList(url) ==
    CASE VideoOf(url) = "v" ->
            [stdout |-> <<"3", "9", "9", " ", "m", "p", "4", " ", "v", "i", "d", "e", "o", " ",
                          "1", "0", "8", "0", "p", "\n",
                          "1", "4", "0", " ", "m", "4", "a", " ", "a", "u", "d", "i", "o", " ",
                          "o", "n", "l", "y">>,
             stderr |-> <<>>]
      [] VideoOf(url) = "w" ->
            [stdout |-> <<"3", "9", "9", " ", "v", "i", "d", "e", "o", " ", "1", "4", "4", "0", "p">>,
             stderr |-> <<>>]
      [] VideoOf(url) = "u" ->
            [stdout |-> <<"1", "4", "0", " ", "a", "u", "d", "i", "o", " ", "o", "n", "l", "y">>,
             stderr |-> <<>>]
      [] OTHER ->
            [stdout |-> <<>>,
             stderr |-> <<"E", "R", "R", "O", "R", ":", " ", "u", "n", "a", "v", "a", "i", "l", "a",
                          "b", "l", "e">>]

\* run_yt_dlp(link)
run_yt_dlp(url) ==
    IF YtDlpList(url).stdout # <<>> THEN YtDlpList(url).stdout ELSE YtDlpList(url).stderr

\* The content write_selection_info gives info.txt: the title when there is
\* one, the video lines and the audio lines, a notice in place of none.
InfoText(vm, am, title) ==
    [title |-> IF Truthy(title) THEN title ELSE None,
     videos |-> IF vm # EmptyMap THEN Values(vm) ELSE <<"Nenhum video encontrado">>,
     audios |-> IF am # EmptyMap THEN Values(am) ELSE <<"Nenhum audio encontrado">>]

\* prompt_choice on one response: whether it returns, and what.
PromptChoice_blank(val, choices, allow_blank) ==
    IF val = <<>> THEN [done |-> TRUE, id |-> None]
    ELSE IF val \in choices THEN [done |-> TRUE, id |-> val]
    ELSE [done |-> FALSE, id |-> None]

PromptChoice(val, choices, allow_blank) ==
    IF allow_blank /\ val = <<>> THEN [done |-> TRUE, id |-> None]
    ELSE IF val \in choices THEN [done |-> TRUE, id |-> val]
    ELSE [done |-> FALSE, id |-> None]

\* video_allow_blank = bool(audio_map), audio_allow_blank = bool(video_map)
AllowBlank(other_map) == other_map # EmptyMap

\* The condition of line 275 with a single identifier asked for.
SelectionComplete_any(v, a) == TRUE

\* The condition of line 275.
SelectionComplete(v, a) == Truthy(v) \/ Truthy(a)

\* The selection loop of lines 269-277 up to its next prompt: where the program
\* stops, the identifiers it holds there, and the line it printed on the way.
\* EnterRound starts a pass of the loop, AfterVideo goes on from line 272 and
\* AfterAudio from line 275.
RECURSIVE EnterRound(_, _, _, _)
\* A selection with nothing chosen that asks for the audio again.
AfterAudio_audio(vm, am, v, a) ==
    IF SelectionComplete(v, a)
    THEN [pc |-> "confirm", video_id |-> v, audio_id |-> a, msg |-> ""]
    ELSE [pc |-> "audio", video_id |-> v, audio_id |-> a, msg |-> SelectOneMsg]

AfterAudio(vm, am, v, a) ==
    IF SelectionComplete(v, a)
    THEN [pc |-> "confirm", video_id |-> v, audio_id |-> a, msg |-> ""]
    ELSE [EnterRound(vm, am, v, a) EXCEPT !.msg = SelectOneMsg]

AfterVideo(vm, am, v, a) ==
    IF am # EmptyMap
    THEN [pc |-> "audio", video_id |-> v, audio_id |-> a, msg |-> ""]
    ELSE AfterAudio(vm, am, v, None)

\* A pass that leaves video_id alone when it skips the video prompt.
EnterRound_keep(vm, am, v, a) ==
    IF vm # EmptyMap
    THEN [pc |-> "video", video_id |-> v, audio_id |-> a, msg |-> ""]
    ELSE AfterVideo(vm, am, v, a)

EnterRound(vm, am, v, a) ==
    IF vm # EmptyMap
    THEN [pc |-> "video", video_id |-> v, audio_id |-> a, msg |-> ""]
    ELSE AfterVideo(vm, am, None, a)

\* The format expression with its two identifiers the other way round.
FormatCode_swapped(v, a) ==
    IF Truthy(v) /\ ~Truthy(a) THEN v
    ELSE IF Truthy(v) /\ Truthy(a) THEN a \o <<"+">> \o v
    ELSE a

\* format_code of lines 289-293
FormatCode(v, a) ==
    IF Truthy(v) /\ ~Truthy(a) THEN v
    ELSE IF Truthy(v) /\ Truthy(a) THEN v \o <<"+">> \o a
    ELSE a

\* The answers main takes for yes.
Yes == {<<"s">>, <<"s", "i", "m">>}

\* What the user types at the link prompt.
LinkTexts ==
    {CanonicalPrefix \o <<"v">>,
     <<" ", "h", "t", "t", "p", "s", ":", "/", "/", "y", "o", "u", "t", "u", ".", "b", "e", "/", "w", " ">>,
     <<"h", "t", "t", "p", "s", ":", "/", "/", "y", "o", "u", "t", "u", "b", "e", ".", "c", "o", "m",
       "/", "s", "h", "o", "r", "t", "s", "/", "u">>,
     CanonicalPrefix \o <<"e">>,
     CanonicalPrefix \o <<"l">>,
     <<"z", "z">>}

\* What the user types at the prompts of the selection.
IdResponses == {<<>>, <<" ">>, <<"3", "9", "9">>, <<" ", "1", "4", "0", " ">>, <<"1", "4">>}

\* What the user types at the prompts that ask for yes or no.
YesNoResponses == {<<"s">>, <<"S", "i", "m", " ">>, <<"n">>}

\* The files a download may leave in the directory dir: none, or one of a name
\* the directory does not hold.
Downloads(dir) ==
    {{}} \cup {{nm} : nm \in {x \in {<<"a", "?", ".", "m">>} :
                                x \notin dir /\ Cardinality(dir) < MaxFiles}}

Init ==
    /\ pc = "link"
    /\ IdleNorm /\ IdleSanitize /\ IdleRename /\ IdleMain
    /\ output_raw = None
    /\ resolutions = RESOLUTIONS
    /\ video_map = EmptyMap
    /\ audio_map = EmptyMap

\* Lines 216-250 and 264-274: a link is read, normalized and probed; a link
\* that is no YouTube link or is live is asked for again; otherwise the
\* formats are listed and parsed, raw.txt and info.txt written, and the
\* program stops at the retry prompt (nothing found) or at the first prompt of
\* the selection.
ReadLink ==
    /\ pc \in {"link", "relink"}
    /\ \E text \in LinkTexts :
        LET lk == Strip(text)
            norm == normalize_youtube_link(lk)
            inf == IF norm # None THEN probe_video_info(norm) ELSE NoInfo
            raw == run_yt_dlp(norm)
            maps == parse_available(raw, RESOLUTIONS)
            round == EnterRound(maps[1], maps[2], video_id, audio_id)
        IN  /\ link' = lk
            /\ normalized' = norm
            /\ info' = inf
            /\ live' = IsLive(inf)
            /\ IF norm = None \/ IsLive(inf)
               THEN /\ msg' = InvalidLinkMsg
                    /\ pc' = "relink"
                    /\ UNCHANGED <<output_raw, video_map, audio_map, video_id, audio_id,
                                   info_txt, raw_txt>>
               ELSE /\ output_raw' = raw
                    /\ raw_txt' = raw
                    /\ video_map' = maps[1]
                    /\ audio_map' = maps[2]
                    /\ info_txt' = InfoText(maps[1], maps[2], TitleOf(inf))
                    /\ IF maps[1] = EmptyMap /\ maps[2] = EmptyMap
                       THEN /\ msg' = NoDataMsg
                            /\ pc' = "again_nodata"
                            /\ UNCHANGED <<video_id, audio_id>>
                       ELSE /\ msg' = OpenInfoMsg
                            /\ pc' = round.pc
                            /\ video_id' = round.video_id
                            /\ audio_id' = round.audio_id
    /\ UNCHANGED <<renormalized, sanVars, resolutions, renVars, value, confirm,
                   format_code, download_cli>>

\* Line 271: one response to the video prompt.
AnswerVideo ==
    /\ pc = "video"
    /\ \E text \in IdResponses :
        LET val == Strip(text)
            ans == PromptChoice(val, Keys(video_map), AllowBlank(audio_map))
            next == AfterVideo(video_map, audio_map, ans.id, audio_id)
        IN  /\ value' = val
            /\ IF ~ans.done
               THEN /\ msg' = InvalidIdMsg
                    /\ UNCHANGED <<pc, video_id, audio_id>>
               ELSE /\ msg' = next.msg
                    /\ pc' = next.pc
                    /\ video_id' = next.video_id
                    /\ audio_id' = next.audio_id
    /\ UNCHANGED <<normVars, sanVars, parseVars, renVars, info, live, confirm,
                   format_code, download_cli, info_txt, raw_txt>>

\* Line 274: one response to the audio prompt.
AnswerAudio ==
    /\ pc = "audio"
    /\ \E text \in IdResponses :
        LET val == Strip(text)
            ans == PromptChoice(val, Keys(audio_map), AllowBlank(video_map))
            next == AfterAudio(video_map, audio_map, video_id, ans.id)
        IN  /\ value' = val
            /\ IF ~ans.done
               THEN /\ msg' = InvalidIdMsg
                    /\ UNCHANGED <<pc, video_id, audio_id>>
               ELSE /\ msg' = next.msg
                    /\ pc' = next.pc
                    /\ video_id' = next.video_id
                    /\ audio_id' = next.audio_id
    /\ UNCHANGED <<normVars, sanVars, parseVars, renVars, info, live, confirm,
                   format_code, download_cli, info_txt, raw_txt>>

\* Lines 278-342: the confirmation is read; on yes the format expression is
\* composed and the download run, and after a download that succeeds each new
\* file with an unsafe stem is renamed, or keeps its name if the rename fails.
AnswerConfirm ==
    /\ pc = "confirm"
    /\ \E text \in YesNoResponses :
        /\ confirm' = Lower(Strip(text))
        /\ IF Lower(Strip(text)) \notin Yes
           THEN /\ msg' = CancelMsg
                /\ pc' = "again_cancel"
                /\ UNCHANGED <<format_code, download_cli, renVars>>
           ELSE /\ format_code' = FormatCode(video_id, audio_id)
                /\ download_cli' = [format |-> FormatCode(video_id, audio_id), url |-> normalized]
                /\ before_files' = files
                /\ after_files' = {}
                /\ pc' = "again"
                /\ \E new \in Downloads(files), succeeded \in BOOLEAN, renames \in BOOLEAN :
                    IF ~succeeded
                    THEN /\ msg' = ErrorMsg
                         /\ files' = files \cup new
                         /\ UNCHANGED <<p, candidate>>
                    ELSE /\ msg' = DoneMsg
                         /\ IF new = {}
                            THEN UNCHANGED <<files, p, candidate>>
                            ELSE LET nm == CHOOSE x \in new : TRUE
                                     dir == files \cup new
                                 IN  /\ p' = nm
                                     /\ IF NeedsRename(nm)
                                        THEN /\ candidate' = Candidate(nm, dir)
                                             /\ files' = IF renames
                                                         THEN Renamed(dir, nm, Candidate(nm, dir))
                                                         ELSE dir
                                        ELSE /\ files' = dir
                                             /\ UNCHANGED candidate
    /\ UNCHANGED <<normVars, sanVars, parseVars, info, live, video_id, audio_id, value,
                   info_txt, raw_txt>>

\* Lines 246-250, 282-286 and 344-346: another link, or the end.
AnswerAgain ==
    /\ pc \in {"again_nodata", "again_cancel", "again"}
    /\ \E text \in YesNoResponses :
        pc' = IF Lower(Strip(text)) \in Yes THEN "link" ELSE "exit"
    /\ msg' = ""
    /\ UNCHANGED <<normVars, sanVars, parseVars, renVars, info, live, video_id, audio_id,
                   value, confirm, format_code, download_cli, info_txt, raw_txt>>

Next == ReadLink \/ AnswerVideo \/ AnswerAudio \/ AnswerConfirm \/ AnswerAgain

Spec == Init /\ [][Next]_vars

\* C1: whenever the selection loop has completed and the program stands at the
\* confirmation, at least one of video_id and audio_id is present, a present
\* video_id is a key of the video catalog and a present audio_id is a key of
\* the audio catalog.
C1_SelectionValid ==
    pc = "confirm" =>
        /\ video_id # None \/ audio_id # None
        /\ video_id # None => video_id \in Keys(video_map)
        /\ audio_id # None => audio_id \in Keys(audio_map)

\* The selection completed with the video left blank and an audio chosen, both
\* catalogs having entries.
C1_Witness ==
    /\ pc = "confirm"
    /\ video_map # EmptyMap
    /\ video_id = None
    /\ audio_id = <<"1", "4", "0">>

\* C2: the format expression handed to the downloader is the video id when
\* only the video id is present, the audio id when only the audio id is
\* present, and video id, "+", audio id when both are present.
C2_FormatExpression ==
    pc = "again" =>
        /\ download_cli.format = format_code
        /\ video_id # None \/ audio_id # None
        /\ (video_id # None /\ audio_id = None) => format_code = video_id
        /\ (video_id = None /\ audio_id # None) => format_code = audio_id
        /\ (video_id # None /\ audio_id # None) =>
                format_code = video_id \o <<"+">> \o audio_id

\* A download ran with both identifiers chosen.
C2_Witness ==
    /\ pc = "again"
    /\ video_id = <<"3", "9", "9">>
    /\ audio_id = <<"1", "4", "0">>
    /\ download_cli.format = <<"3", "9", "9", "+", "1", "4", "0">>

\* Whether prompt_choice takes the response val for the catalog own_map, the
\* other catalog being other_map.
Acceptable(val, own_map, other_map) ==
    \/ val \in Keys(own_map)
    \/ val = <<>> /\ other_map # EmptyMap

\* What the prompt hands back for a response it takes.
Chosen(val) == IF val = <<>> THEN None ELSE val

\* C8: a selection prompt ends only on a response that is a key of its catalog
\* or, where blank is allowed, on a blank response, and every other response
\* asks for the same field again; blank is allowed at the video prompt iff the
\* audio catalog is non-empty and at the audio prompt iff the video catalog is
\* non-empty; a prompt whose catalog is empty is never shown and its
\* identifier is absent.
C8_PromptEnds ==
    [][/\ pc = "video" =>
            IF Acceptable(value', video_map, audio_map)
            THEN pc' \in {"audio", "confirm"} /\ video_id' = Chosen(value')
            ELSE /\ pc' = "video" /\ msg' = InvalidIdMsg
                 /\ UNCHANGED <<video_id, audio_id>>
       /\ pc = "audio" =>
            IF Acceptable(value', audio_map, video_map)
            THEN pc' \in {"video", "confirm"} /\ audio_id' = Chosen(value')
            ELSE /\ pc' = "audio" /\ msg' = InvalidIdMsg
                 /\ UNCHANGED <<video_id, audio_id>>
       /\ pc' = "video" => video_map' # EmptyMap
       /\ pc' = "audio" => audio_map' # EmptyMap
       /\ (pc' \in {"audio", "confirm"} /\ video_map' = EmptyMap) => video_id' = None
       /\ (pc' = "confirm" /\ audio_map' = EmptyMap) => audio_id' = None
      ]_vars

\* With no video in the catalog the video prompt was skipped, and the audio
\* prompt has refused a blank response and asks again.
C8_Witness ==
    /\ pc = "audio"
    /\ video_map = EmptyMap
    /\ video_id = None
    /\ value = <<>>
    /\ msg = InvalidIdMsg

\* C9: when both identifiers are absent after the audio prompt the selection
\* starts again from the video prompt, neither asking for the audio again nor
\* going on to the confirmation; that happens only when both catalogs are
\* non-empty and both prompts of the round were answered blank.
C9_RestartFromVideo ==
    [][/\ (/\ pc = "audio"
           /\ Acceptable(value', audio_map, video_map)
           /\ video_id = None
           /\ Chosen(value') = None)
          => pc' = "video" /\ msg' = SelectOneMsg
       /\ msg' = SelectOneMsg =>
            /\ pc = "audio" /\ pc' = "video"
            /\ video_map # EmptyMap /\ audio_map # EmptyMap
            /\ video_id = None
            /\ value' = <<>>
            /\ audio_id' = None
      ]_vars

\* The selection has started again after two blank responses.
C9_Witness ==
    /\ pc = "video"
    /\ msg = SelectOneMsg
    /\ value = <<>>
    /\ video_id = None /\ audio_id = None

\* The format expressions made of keys of the catalogs vm and am.
FormatsOf(vm, am) ==
    Keys(vm) \cup Keys(am) \cup {v \o <<"+">> \o a : v \in Keys(vm), a \in Keys(am)}

\* C10: the download command runs only in a pass of the main loop whose link
\* has a canonical form that is not reported live, that parsed at least one
\* non-empty catalog, and whose confirmation was answered "s" or "sim"; its
\* format expression is made of keys of the catalogs parsed in that pass; and
\* with both catalogs empty the program goes to the retry prompt, with no
\* selection prompt and no download.
C10_DownloadOnlyConfirmed ==
    [][/\ (pc' = "again" \/ download_cli' # download_cli) =>
            /\ pc = "confirm" /\ pc' = "again"
            /\ confirm' \in Yes
            /\ normalized # None /\ ~live
            /\ video_map # EmptyMap \/ audio_map # EmptyMap
            /\ <<video_map, audio_map>> = parse_available(run_yt_dlp(normalized), RESOLUTIONS)
            /\ download_cli'.url = normalized
            /\ download_cli'.format \in FormatsOf(video_map, audio_map)
       /\ (/\ pc \in {"link", "relink"}
           /\ normalized' # None /\ ~live'
           /\ video_map' = EmptyMap /\ audio_map' = EmptyMap)
          => pc' = "again_nodata"
       /\ pc = "again_nodata" =>
            pc' \in {"link", "exit"} /\ download_cli' = download_cli
      ]_vars

\* A download of a later pass: the directory held a file of an earlier
\* download, and the audio of a link that lists no video was asked for.
C10_Witness ==
    /\ pc = "again"
    /\ before_files # {}
    /\ video_map = EmptyMap
    /\ download_cli.format = <<"1", "4", "0">>
    /\ download_cli.url = CanonicalPrefix \o <<"u">>

====
